---- MODULE Spec2Model ----
(***************************************************************************)
(* Model of receive_distance.py: the proximity detector of main() and the  *)
(* MIDITrackTrigger scheduler with its threading.Timer callbacks and its   *)
(* non-reentrant threading.Lock.                                           *)
(*                                                                         *)
(* Every threading.Timer is a thread of its own.  A timer created by       *)
(* queue_random_track is one record of `timers`: the field `delay` is the  *)
(* position of the delay timer and of its callback _trigger_track, the     *)
(* field `cleanup` the position of the cleanup timer that callback may     *)
(* start and of its callback _track_finished.  `idle_timers` holds every   *)
(* empty-queue timer ever created, `empty_queue_timer` is the handle       *)
(* (0 is None).  A `with self.lock` block that cannot block inside is one  *)
(* step guarded by lock = 0; the only block that acquires the lock again   *)
(* inside is _auto_queue_track, which keeps the lock (lock = its index).   *)
(*                                                                         *)
(* Timer intervals are not measured: an armed timer may fire at any step.  *)
(* `obs` and `hist` are history variables (the last sample and the events  *)
(* of the driver loop, the last scheduler operation); no action reads them *)
(* to decide what the program does.  Spec is the whole program with the    *)
(* samples far apart; SpecDriver is main() alone with samples at every     *)
(* spacing, before any timer can fire.                                     *)
(***************************************************************************)
EXTENDS Integers, Sequences, FiniteSets, TLC

\* ---------------------------------------------------------------- constants
PROXIMITY_THRESHOLD == 100
DETECTION_COOLDOWN == 5
MAX_QUEUED_TRACKS == 2

\* ------------------------------------------------------------------- bounds
\* time.time() of the first sample (seconds since the epoch, so above the
\* cooldown; the clock never runs backwards) and the last clock value the
\* model follows.
StartTime == 6
MaxTime == 18

\* ------------------------------------------------------------------- inputs
\* MIDI notes of the audio folder; audio_dict gives note 60 a known length
\* and note 61 the length 0.
Notes == {60, 61}
Durations == (60 :> 10) @@ (61 :> 0)
\* distances read from the sensor: inside, exactly at, outside the threshold
Distances == {80, 100, 120}
\* the distances of the runs that let the timers fire: inside and outside
EventDistances == {80, 120}
\* the scenario of the specification: these distances, one second apart,
\* are the first samples of a run
Scenario == <<120, 80, 80, 80, 120>>
\* seconds between two samples of the driver loop
TimeSteps == {0, 1, DETECTION_COOLDOWN, DETECTION_COOLDOWN + 1}
\* seconds between two samples in the runs that let the timers fire: the
\* scheduler sees the detections only, and these steps give every order of
\* detections and timer callbacks
EventSteps == {0, DETECTION_COOLDOWN + 1}

VARIABLES
  midi_port,            \* "none" | "open" | "closed"
  note_to_file_map,     \* the notes that have a file (the keys of the map)
  queued_count,
  playing_count,
  playing_tracks,       \* the keys of self.playing_tracks
  timers,               \* Seq of [note, delay, cleanup]
  active_timers,        \* Seq of indexes into timers
  idle_timers,          \* Seq of positions of the empty-queue timers
  empty_queue_timer,    \* index into idle_timers, 0 for None
  lock,                 \* 0 free, i > 0: held by the callback of idle timer i
  driver,               \* position of main(): "loop" | "queue" | "closing" | "closed"
  now,                  \* the last value time.time() returned to main()
  person_detected,
  last_detection_time,
  obs,                  \* observer of the driver loop (history, no program state)
  hist                  \* the last scheduler operation (history, no program state)

vars == <<midi_port, note_to_file_map, queued_count, playing_count,
          playing_tracks, timers, active_timers, idle_timers,
          empty_queue_timer, lock, driver, now, person_detected,
          last_detection_time, obs, hist>>

sched == <<queued_count, playing_count, playing_tracks, timers,
           active_timers, idle_timers, empty_queue_timer, lock>>

detector == <<now, person_detected, last_detection_time, obs>>

\* ------------------------------------------------------------------ helpers
Range(f) == {f[i] : i \in DOMAIN f}

\* the record of one scheduler operation; q is queued_count after it.
\* burst counts the queue_random_track calls that reached the lock since the
\* last other operation, base is queued_count when that run began.
Op(name, note, res, q) ==
  [op |-> name, note |-> note, res |-> res, ret |-> "None",
   burst |-> 0, base |-> q]

\* the observer before the first sample: -1 is "none"
NoSample ==
  [distance |-> -1, run_len |-> 0, run_events |-> 0, last_event |-> -1,
   prev_event |-> -1, scen |-> 0, scen_events |-> {}]

\* line 197: random.choice(available_notes)
available_notes == note_to_file_map

\* mutants of line 191: the bound tested one too late, and not tested
QueueFull_late == queued_count > MAX_QUEUED_TRACKS
QueueFull_never == FALSE

\* line 191
QueueFull == queued_count >= MAX_QUEUED_TRACKS

\* line 219: self.audio_dict.get(filename, 0)
duration(track_note) == Durations[track_note]

\* mutant of lines 268-269: the old idle timer not cancelled
CancelIdle_skipped(ts, h) == ts

\* Timer.cancel() on the handle h: stops a timer whose interval has not
\* elapsed; a timer whose callback has begun, or that has ended, goes on
CancelIdle(ts, h) ==
  IF h # 0 /\ ts[h] = "armed" THEN [ts EXCEPT ![h] = "cancelled"] ELSE ts

\* _reset_empty_queue_timer on the idle timers ts with the counts q, p:
\* the new idle timers and the new handle
reset_empty_queue_timer(ts, q, p) ==
  LET cs == CancelIdle(ts, empty_queue_timer)
  IN  IF q = 0 /\ p = 0
        THEN [timers |-> Append(cs, "armed"), handle |-> Len(cs) + 1]
        ELSE [timers |-> cs, handle |-> 0]

\* mutant of lines 222-224: line 223 left out
TrackTriggered_uncounted(track_note) ==
  [queued_count |-> queued_count - 1,
   playing_count |-> playing_count,
   playing_tracks |-> playing_tracks \cup {track_note}]

\* lines 222-224: the counts and the playing tracks once track_note is
\* triggered
TrackTriggered(track_note) ==
  [queued_count |-> queued_count - 1,
   playing_count |-> playing_count + 1,
   playing_tracks |-> playing_tracks \cup {track_note}]

\* mutant of line 255: the membership test left out
IsPlaying_unchecked(track_note) == TRUE

\* line 255
IsPlaying(track_note) == track_note \in playing_tracks

\* mutant of lines 249-251: line 249 left out
RolledBack_uncounted(track_note) ==
  [playing_count |-> playing_count,
   playing_tracks |-> playing_tracks \ {track_note}]

\* lines 249-251: the count and the playing tracks once the trigger of
\* track_note is rolled back
RolledBack(track_note) ==
  [playing_count |-> playing_count - 1,
   playing_tracks |-> playing_tracks \ {track_note}]

\* mutant of line 279: the counts not tested again
StillIdle_unchecked == TRUE

\* line 279
StillIdle == queued_count = 0 /\ playing_count = 0

\* mutant of line 182: the port not tested
NoPort_unchecked == FALSE

\* line 182
NoPort == midi_port = "none"

\* mutant of lines 202-204: timer.start() left out
NewTimer_unstarted(track_note) ==
  [note |-> track_note, delay |-> "created", cleanup |-> "none"]

\* lines 202-204: the delay timer of a queued track, started
NewTimer(track_note) ==
  [note |-> track_note, delay |-> "armed", cleanup |-> "none"]

\* mutant of lines 221-231: the pulse moved inside the with block, so that
\* the callback of delay timer i (holder -i) keeps the lock
WithBlockLeft_held(i) == -i

\* lines 221-231: the with block ends before the try statement; the lock
\* is free when the callback of delay timer i starts its pulse
WithBlockLeft(i) == 0

\* the timers as they are once timer i has moved to the position d
Delay(i, d) == [timers EXCEPT ![i].delay = d]
Cleanup(i, c) == [timers EXCEPT ![i].cleanup = c]

\* ---------------------------------------------------------------------- Init
\* __init__: the counts are 0, the port is open or missing, the mapping is
\* built from the audio folder, the empty-queue timer is started.
Init ==
  /\ midi_port \in {"open", "none"}
  /\ note_to_file_map \in SUBSET Notes
  /\ queued_count = 0
  /\ playing_count = 0
  /\ playing_tracks = {}
  /\ timers = <<>>
  /\ active_timers = <<>>
  /\ idle_timers = <<"armed">>
  /\ empty_queue_timer = 1
  /\ lock = 0
  /\ driver = "loop"
  /\ now = StartTime
  /\ person_detected = FALSE
  /\ last_detection_time = 0
  /\ obs = NoSample
  /\ hist = Op("init", 0, "none", 0)

\* ------------------------------------------------------------ driver loop
\* mutant of line 333: a strict comparison
Within_strict(distance) == distance < PROXIMITY_THRESHOLD

\* line 333
Within(distance) == distance <= PROXIMITY_THRESHOLD

\* mutant of line 334: a non-strict comparison
CooldownOver_atleast(current_time) ==
  (current_time - last_detection_time) >= DETECTION_COOLDOWN

\* line 334, second conjunct
CooldownOver(current_time) ==
  (current_time - last_detection_time) > DETECTION_COOLDOWN

\* lines 333-334
Detects(distance, current_time) ==
  Within(distance) /\ ~person_detected /\ CooldownOver(current_time)

\* The observer after the sample (distance, current_time), emitted telling
\* whether the sample emitted a presence event.  It follows the source in
\* nothing: a run is a maximal sequence of samples with
\* distance <= PROXIMITY_THRESHOLD, written out here in full.
Observe(distance, current_time, emitted) ==
  LET inside == distance <= PROXIMITY_THRESHOLD
      was_inside == obs.distance >= 0 /\ obs.distance <= PROXIMITY_THRESHOLD
      k == obs.scen
      fits == /\ k >= 0 /\ k < Len(Scenario)
              /\ distance = Scenario[k + 1]
              /\ (k = 0 \/ current_time = now + 1)
  IN  [distance |-> distance,
       run_len |-> IF ~inside THEN 0
                   ELSE IF was_inside THEN 2 ELSE 1,
       run_events |-> (IF inside /\ was_inside THEN obs.run_events ELSE 0)
                      + (IF emitted THEN 1 ELSE 0),
       last_event |-> IF emitted THEN current_time ELSE obs.last_event,
       prev_event |-> IF emitted THEN obs.last_event ELSE obs.prev_event,
       scen |-> IF fits THEN k + 1 ELSE -1,
       scen_events |-> IF fits /\ emitted THEN obs.scen_events \cup {k}
                       ELSE IF fits THEN obs.scen_events ELSE {}]

\* lines 324-347: one parsed "Distance:" line, read at current_time.  A
\* detection goes on to call queue_random_track (driver = "queue").
Sample(distance, current_time) ==
  /\ driver = "loop"
  /\ current_time >= now /\ current_time <= MaxTime
  /\ now' = current_time
  /\ IF Detects(distance, current_time)
       THEN /\ person_detected' = TRUE
            /\ last_detection_time' = current_time
            /\ driver' = "queue"
       ELSE /\ person_detected' = (Within(distance) /\ person_detected)
            /\ UNCHANGED <<last_detection_time, driver>>
  /\ obs' = Observe(distance, current_time, Detects(distance, current_time))
  /\ UNCHANGED <<midi_port, note_to_file_map, sched, hist>>

\* ------------------------------------------------------- queue_random_track
\* who is calling queue_random_track: 0 is main() (line 338), i > 0 is the
\* callback of idle timer i (line 281), which holds the lock
Calls(c) == IF c = 0 THEN driver = "queue" ELSE idle_timers[c] = "nested"

\* the caller's position once queue_random_track has returned: main() goes
\* on with its loop, _auto_queue_track leaves its with block and ends
Returned(c, ts) ==
  /\ driver' = IF c = 0 THEN "loop" ELSE driver
  /\ idle_timers' = IF c = 0 THEN ts ELSE [ts EXCEPT ![c] = "done"]
  /\ lock' = IF c = 0 THEN lock ELSE 0

\* lines 190-208: the with block of queue_random_track, for the chosen note
QueueLocked(c, track_note) ==
  IF QueueFull
    THEN /\ hist' = [Op("queue_random_track", 0, "full", queued_count) EXCEPT
                       !.burst = hist.burst + 1, !.base = hist.base]
         /\ Returned(c, idle_timers)
         /\ UNCHANGED <<queued_count, timers, active_timers, empty_queue_timer>>
    ELSE /\ queued_count' = queued_count + 1
         /\ timers' = Append(timers, NewTimer(track_note))
         /\ active_timers' = Append(active_timers, Len(timers) + 1)
         /\ LET r == reset_empty_queue_timer(idle_timers, queued_count + 1,
                                             playing_count)
            IN  /\ Returned(c, r.timers)
                /\ empty_queue_timer' = r.handle
         /\ hist' = [Op("queue_random_track", track_note, "queued",
                        queued_count + 1) EXCEPT
                       !.burst = hist.burst + 1, !.base = hist.base]

\* lines 181-208.  The with statement of line 190 waits until the lock is
\* free: a caller that holds the lock itself waits for ever.
queue_random_track(c) ==
  /\ Calls(c)
  /\ IF NoPort
       THEN /\ hist' = Op("queue_random_track", 0, "noport", queued_count)
            /\ Returned(c, idle_timers)
            /\ UNCHANGED <<queued_count, timers, active_timers,
                           empty_queue_timer>>
       ELSE IF note_to_file_map = {}
         THEN /\ hist' = Op("queue_random_track", 0, "nofiles", queued_count)
              /\ Returned(c, idle_timers)
              /\ UNCHANGED <<queued_count, timers, active_timers,
                             empty_queue_timer>>
         ELSE /\ lock = 0
              /\ \E track_note \in available_notes : QueueLocked(c, track_note)
  /\ UNCHANGED <<midi_port, note_to_file_map, playing_count, playing_tracks,
                 detector>>

\* ------------------------------------------------------------ _trigger_track
\* The interval of delay timer i has elapsed: Timer.run calls _trigger_track.
trigger_fire(i) ==
  /\ timers[i].delay = "armed"
  /\ timers' = Delay(i, "waiting")
  /\ hist' = Op("trigger_fire", 0, "fired", queued_count)
  /\ UNCHANGED <<midi_port, note_to_file_map, queued_count, playing_count,
                 playing_tracks, active_timers, idle_timers,
                 empty_queue_timer, lock, driver, detector>>

\* lines 212-229: without a port the track is dropped (lines 214-216);
\* otherwise the with block of line 221 moves the track from queued to
\* playing, and the callback goes on to the pulse.
trigger_track(i) ==
  /\ timers[i].delay = "waiting"
  /\ lock = 0
  /\ IF midi_port = "none"
       THEN /\ queued_count' = queued_count - 1
            /\ timers' = Delay(i, "dropped")
            /\ hist' = Op("trigger_track", timers[i].note, "noport",
                          queued_count - 1)
            /\ UNCHANGED <<playing_count, playing_tracks, idle_timers,
                           empty_queue_timer, lock>>
       ELSE /\ queued_count' = TrackTriggered(timers[i].note).queued_count
            /\ playing_count' = TrackTriggered(timers[i].note).playing_count
            /\ playing_tracks' = TrackTriggered(timers[i].note).playing_tracks
            /\ timers' = Delay(i, "pulse")
            /\ lock' = WithBlockLeft(i)
            /\ IF queued_count' = 0 /\ playing_count' = 1
                 THEN LET r == reset_empty_queue_timer(idle_timers,
                                 queued_count', playing_count')
                      IN  /\ idle_timers' = r.timers
                          /\ empty_queue_timer' = r.handle
                 ELSE UNCHANGED <<idle_timers, empty_queue_timer>>
            /\ hist' = Op("trigger_track", timers[i].note, "playing",
                          queued_count - 1)
  /\ UNCHANGED <<midi_port, note_to_file_map, active_timers, driver,
                 detector>>

\* lines 231-244: note_on, the hold, note_off are sent; a known duration
\* above 0 starts the cleanup timer.  No lock is held.
pulse_sent(i) ==
  /\ timers[i].delay = "pulse"
  /\ midi_port = "open"
  /\ timers' = [timers EXCEPT ![i].delay = "done",
                  ![i].cleanup = IF duration(timers[i].note) > 0
                                   THEN "armed" ELSE "none"]
  /\ hist' = Op("pulse", timers[i].note, "sent", queued_count)
  /\ UNCHANGED <<midi_port, note_to_file_map, queued_count, playing_count,
                 playing_tracks, active_timers, idle_timers,
                 empty_queue_timer, lock, driver, detector>>

\* lines 246-247: a send raises (always on a port that close() has closed);
\* the handler goes on to the with statement of line 248.
pulse_failed(i) ==
  /\ timers[i].delay = "pulse"
  /\ timers' = Delay(i, "rollback")
  /\ hist' = Op("pulse", 0, "raised", queued_count)
  /\ UNCHANGED <<midi_port, note_to_file_map, queued_count, playing_count,
                 playing_tracks, active_timers, idle_timers,
                 empty_queue_timer, lock, driver, detector>>

\* lines 248-251: the rollback
rollback(i) ==
  /\ timers[i].delay = "rollback"
  /\ lock = 0
  /\ playing_count' = RolledBack(timers[i].note).playing_count
  /\ playing_tracks' = RolledBack(timers[i].note).playing_tracks
  /\ timers' = Delay(i, "failed")
  /\ hist' = Op("rollback", timers[i].note,
                IF timers[i].note \in playing_tracks THEN "present"
                                                     ELSE "absent",
                queued_count)
  /\ UNCHANGED <<midi_port, note_to_file_map, queued_count, active_timers,
                 idle_timers, empty_queue_timer, lock, driver, detector>>

\* ----------------------------------------------------------- _track_finished
\* The interval of cleanup timer i has elapsed.
cleanup_fire(i) ==
  /\ timers[i].cleanup = "armed"
  /\ timers' = Cleanup(i, "waiting")
  /\ hist' = Op("cleanup_fire", 0, "fired", queued_count)
  /\ UNCHANGED <<midi_port, note_to_file_map, queued_count, playing_count,
                 playing_tracks, active_timers, idle_timers,
                 empty_queue_timer, lock, driver, detector>>

\* lines 253-264
track_finished(i) ==
  /\ timers[i].cleanup = "waiting"
  /\ lock = 0
  /\ timers' = Cleanup(i, "done")
  /\ IF IsPlaying(timers[i].note)
       THEN /\ playing_tracks' = playing_tracks \ {timers[i].note}
            /\ playing_count' = playing_count - 1
            /\ IF queued_count = 0 /\ playing_count - 1 = 0
                 THEN LET r == reset_empty_queue_timer(idle_timers,
                                 queued_count, playing_count - 1)
                      IN  /\ idle_timers' = r.timers
                          /\ empty_queue_timer' = r.handle
                 ELSE UNCHANGED <<idle_timers, empty_queue_timer>>
            /\ hist' = Op("track_finished", timers[i].note,
                          IF timers[i].note \in playing_tracks
                            THEN "present" ELSE "absent", queued_count)
       ELSE /\ hist' = Op("track_finished", timers[i].note, "absent",
                          queued_count)
            /\ UNCHANGED <<playing_tracks, playing_count, idle_timers,
                           empty_queue_timer>>
  /\ UNCHANGED <<midi_port, note_to_file_map, queued_count, active_timers,
                 lock, driver, detector>>

\* ---------------------------------------------------------- _auto_queue_track
\* The interval of idle timer i has elapsed.
idle_fire(i) ==
  /\ idle_timers[i] = "armed"
  /\ idle_timers' = [idle_timers EXCEPT ![i] = "waiting"]
  /\ hist' = Op("idle_fire", 0, "fired", queued_count)
  /\ UNCHANGED <<midi_port, note_to_file_map, queued_count, playing_count,
                 playing_tracks, timers, active_timers, empty_queue_timer,
                 lock, driver, detector>>

\* lines 278-281: the callback takes the lock; with both counts 0 it calls
\* queue_random_track inside the with block, otherwise it leaves the block.
auto_queue_track(i) ==
  /\ idle_timers[i] = "waiting"
  /\ lock = 0
  /\ IF StillIdle
       THEN /\ idle_timers' = [idle_timers EXCEPT ![i] = "nested"]
            /\ lock' = i
            /\ hist' = Op("auto_queue_track", 0, "calls", queued_count)
       ELSE /\ idle_timers' = [idle_timers EXCEPT ![i] = "done"]
            /\ lock' = 0
            /\ hist' = Op("auto_queue_track", 0, "skips", queued_count)
  /\ UNCHANGED <<midi_port, note_to_file_map, queued_count, playing_count,
                 playing_tracks, timers, active_timers, empty_queue_timer,
                 driver, detector>>

\* --------------------------------------------------------------------- close
\* lines 285-294, reached from the finally of main() (line 358) when the loop
\* is left by KeyboardInterrupt or SerialException
close_timers ==
  /\ driver \in {"loop", "queue"}
  /\ lock = 0
  /\ timers' = [i \in DOMAIN timers |->
                  IF i \in Range(active_timers) /\ timers[i].delay = "armed"
                    THEN [timers[i] EXCEPT !.delay = "cancelled"]
                    ELSE timers[i]]
  /\ active_timers' = <<>>
  /\ idle_timers' = CancelIdle(idle_timers, empty_queue_timer)
  /\ driver' = "closing"
  /\ hist' = Op("close", 0, "timers", queued_count)
  /\ UNCHANGED <<midi_port, note_to_file_map, queued_count, playing_count,
                 playing_tracks, empty_queue_timer, lock, detector>>

\* lines 296-298
close_port ==
  /\ driver = "closing"
  /\ midi_port' = IF midi_port = "open" THEN "closed" ELSE midi_port
  /\ driver' = "closed"
  /\ hist' = Op("close", 0, "port", queued_count)
  /\ UNCHANGED <<note_to_file_map, sched, detector>>

\* ---------------------------------------------------------------------- Next
Next ==
  \/ \E d \in EventDistances, s \in EventSteps : Sample(d, now + s)
  \/ \E c \in {0} \cup DOMAIN idle_timers : queue_random_track(c)
  \/ \E i \in DOMAIN timers : trigger_fire(i)
  \/ \E i \in DOMAIN timers : trigger_track(i)
  \/ \E i \in DOMAIN timers : pulse_sent(i)
  \/ \E i \in DOMAIN timers : pulse_failed(i)
  \/ \E i \in DOMAIN timers : rollback(i)
  \/ \E i \in DOMAIN timers : cleanup_fire(i)
  \/ \E i \in DOMAIN timers : track_finished(i)
  \/ \E i \in DOMAIN idle_timers : idle_fire(i)
  \/ \E i \in DOMAIN idle_timers : auto_queue_track(i)
  \/ close_timers
  \/ close_port

Spec == Init /\ [][Next]_vars

\* The callbacks run on threads of their own (threading.Timer, lines 202-204,
\* 242-244, 273-275) and main() on the main thread: a timer whose interval
\* runs fires, and a thread that can take its next step takes it.  The
\* samples (the serial line) and the shutdown are under no such obligation.
\* The samples come here at once or DETECTION_COOLDOWN + 2 seconds apart, so
\* that a run has two presence events.
FairSteps == {0, DETECTION_COOLDOWN + 2}

FairNext ==
  \/ \E d \in EventDistances, s \in FairSteps : Sample(d, now + s)
  \/ \E c \in {0} \cup DOMAIN idle_timers : queue_random_track(c)
  \/ \E i \in DOMAIN timers : trigger_fire(i)
  \/ \E i \in DOMAIN timers : trigger_track(i)
  \/ \E i \in DOMAIN timers : pulse_sent(i)
  \/ \E i \in DOMAIN timers : pulse_failed(i)
  \/ \E i \in DOMAIN timers : rollback(i)
  \/ \E i \in DOMAIN timers : cleanup_fire(i)
  \/ \E i \in DOMAIN timers : track_finished(i)
  \/ \E i \in DOMAIN idle_timers : idle_fire(i)
  \/ \E i \in DOMAIN idle_timers : auto_queue_track(i)
  \/ close_timers
  \/ close_port

FairSpec ==
  /\ Init /\ [][FairNext]_vars
  /\ WF_vars(\E c \in {0} \cup DOMAIN idle_timers : queue_random_track(c))
  /\ WF_vars(\E i \in DOMAIN timers : trigger_fire(i))
  /\ WF_vars(\E i \in DOMAIN timers : trigger_track(i))
  /\ WF_vars(\E i \in DOMAIN timers : pulse_sent(i) \/ pulse_failed(i))
  /\ WF_vars(\E i \in DOMAIN timers : rollback(i))
  /\ WF_vars(\E i \in DOMAIN timers : cleanup_fire(i))
  /\ WF_vars(\E i \in DOMAIN timers : track_finished(i))
  /\ WF_vars(\E i \in DOMAIN idle_timers : idle_fire(i))
  /\ WF_vars(\E i \in DOMAIN idle_timers : auto_queue_track(i))

\* main() alone during the first seconds of a run: no delay timer
\* (TRACK_DELAY = 300 s) and no idle timer (EMPTY_QUEUE_TIMEOUT = 1200 s)
\* fires in that window, the samples come at every spacing
DriverNext ==
  \/ \E d \in Distances, s \in TimeSteps : Sample(d, now + s)
  \/ queue_random_track(0)
  \/ close_timers
  \/ close_port

SpecDriver == Init /\ [][DriverNext]_vars

\* =================================================================== claims
Min(a, b) == IF a < b THEN a ELSE b
Running == driver \in {"loop", "queue"}
Idle == queued_count = 0 /\ playing_count = 0
ArmedDelays == {i \in DOMAIN timers : timers[i].delay = "armed"}
ArmedCleanups == {i \in DOMAIN timers : timers[i].cleanup = "armed"}
ArmedIdle == {i \in DOMAIN idle_timers : idle_timers[i] = "armed"}
SinkAndCatalog == midi_port = "open" /\ note_to_file_map # {}

\* C1: in every reachable state, whatever the samples and however the driver
\* loop and the delay, cleanup and idle callbacks interleave,
\* 0 <= queued_count <= MAX_QUEUED_TRACKS.
C1_QueuedCountBounded ==
  queued_count >= 0 /\ queued_count <= MAX_QUEUED_TRACKS

\* the queue is full, a call has just been rejected, and callbacks of
\* earlier tracks have run in between
C1_Witness ==
  /\ queued_count = MAX_QUEUED_TRACKS
  /\ hist.op = "queue_random_track" /\ hist.res = "full"
  /\ \E i \in DOMAIN timers : timers[i].delay # "armed"

\* a step in which main() returns from a call of queue_random_track that
\* reached the lock with the queue full
RejectedCall ==
  /\ driver = "queue" /\ driver' = "loop"
  /\ midi_port # "none" /\ note_to_file_map # {}
  /\ queued_count >= MAX_QUEUED_TRACKS

\* the k-th call in a row (no callback, no close in between) that reached the
\* lock leaves min(base + k, MAX_QUEUED_TRACKS) tracks queued, base being the
\* count before the first of them, and is accepted iff base + k <= MAX
BurstCounts ==
  (hist.op = "queue_random_track" /\ hist.burst >= 1) =>
    /\ queued_count = Min(hist.base + hist.burst, MAX_QUEUED_TRACKS)
    /\ (hist.res = "queued") <=> (hist.base + hist.burst <= MAX_QUEUED_TRACKS)

\* C2 (as amended): queue_random_track returns no value on any path.  Called
\* with a port and a mapping while queued_count >= MAX_QUEUED_TRACKS it
\* changes nothing: queued_count, playing_count, playing_tracks, the armed
\* delay timers and the idle timer stay as they are.  So k such calls with no
\* timer firing in between leave queued_count = min(base + k,
\* MAX_QUEUED_TRACKS), exactly the first MAX_QUEUED_TRACKS - base of them
\* queueing a track.
C2_RejectedCallChangesNothing ==
  [][/\ BurstCounts'
     /\ hist'.op = "queue_random_track" => hist'.ret = "None"
     /\ RejectedCall =>
          /\ UNCHANGED <<queued_count, playing_count, playing_tracks,
                         idle_timers, empty_queue_timer, active_timers>>
          /\ ArmedDelays' = ArmedDelays
          /\ timers' = timers]_vars

\* three calls in a row from an empty queue: the third is rejected
C2_Witness ==
  /\ hist.op = "queue_random_track" /\ hist.res = "full"
  /\ hist.base = 0 /\ hist.burst = MAX_QUEUED_TRACKS + 1
  /\ queued_count = MAX_QUEUED_TRACKS

\* C2 (as claimed): a rejected call returns false, an accepted call returns
\* true, and k calls in a row leave min(k, MAX_QUEUED_TRACKS) tracks queued.
C2_EnqueueReturnsBool ==
  (hist.op = "queue_random_track" /\ hist.burst >= 1) =>
    /\ hist.res = "full" => hist.ret = "False"
    /\ hist.res = "queued" => hist.ret = "True"
    /\ queued_count = Min(hist.base + hist.burst, MAX_QUEUED_TRACKS)

\* C3 (as claimed): with a port, a mapping and no presence event, the
\* callback of the idle timer that finds both counts 0 completes its call of
\* queue_random_track (which queues one track and arms one delay timer): it
\* is never left unable to go on.
C3_AutoEnqueueCompletes ==
  \A i \in DOMAIN idle_timers :
    (idle_timers[i] = "nested" /\ SinkAndCatalog /\ obs.last_event = -1)
      => ENABLED queue_random_track(i)

\* C4 (as claimed, for a run with a port and a mapping): between
\* construction and shutdown, while no thread is inside a with block and no
\* idle callback is under way, an idle timer is armed iff both counts are 0.
C4_IdleTimerArmedIffIdle ==
  (/\ Running /\ lock = 0 /\ SinkAndCatalog
   /\ \A i \in DOMAIN idle_timers : idle_timers[i] \notin {"waiting", "nested"})
    => (ArmedIdle # {} <=> Idle)

\* C5: the with block of _trigger_track (port present) takes queued_count
\* down by exactly 1, playing_count up by exactly 1 and makes the note a key
\* of playing_tracks, in one step; the keys of playing_tracks are always
\* notes of the mapping.
C5_TriggerMovesQueuedToPlaying ==
  [][/\ playing_tracks' \subseteq note_to_file_map
     /\ \A i \in DOMAIN timers :
          (timers[i].delay = "waiting" /\ timers'[i].delay = "pulse") =>
            /\ queued_count' = queued_count - 1
            /\ playing_count' = playing_count + 1
            /\ timers[i].note \in playing_tracks']_vars

\* a track has just been triggered while another one is playing
C5_Witness ==
  /\ hist.op = "trigger_track" /\ hist.res = "playing"
  /\ hist.note \in playing_tracks
  /\ playing_count = 2 /\ Cardinality(playing_tracks) = 2

\* C6: _track_finished for a note that is a key of playing_tracks takes
\* playing_count down by exactly 1, removes that key and leaves queued_count
\* and the other keys alone; for a note that is no key it changes neither
\* the counts nor playing_tracks nor the idle timer.
C6_TrackFinishedFrame ==
  [][\A i \in DOMAIN timers :
       (timers[i].cleanup = "waiting" /\ timers'[i].cleanup = "done") =>
         IF timers[i].note \in playing_tracks
           THEN /\ playing_count' = playing_count - 1
                /\ playing_tracks' = playing_tracks \ {timers[i].note}
                /\ queued_count' = queued_count
           ELSE UNCHANGED <<queued_count, playing_count, playing_tracks,
                            idle_timers, empty_queue_timer>>]_vars

\* a cleanup timer has just found its note absent, with more playing
C6_Witness ==
  /\ hist.op = "track_finished" /\ hist.res = "absent"
  /\ playing_count > 0

\* a step of the driver loop that emits a presence event
Emits == driver = "loop" /\ driver' = "queue"

\* C7: a presence event is emitted only on a sample that takes
\* person_detected from FALSE to TRUE, and it comes strictly more than
\* DETECTION_COOLDOWN after the event before it.
C7_EventsOnEntryAndCooledDown ==
  [][Emits =>
       /\ ~person_detected /\ person_detected'
       /\ obs'.last_event = now'
       /\ obs.last_event # -1 => now' - obs.last_event > DETECTION_COOLDOWN]_vars

\* a second event, as early after the first as the cooldown allows
C7_Witness ==
  /\ driver = "queue"
  /\ obs.prev_event # -1
  /\ obs.last_event - obs.prev_event = DETECTION_COOLDOWN + 1

\* a step of the driver loop that reads a sample
Samples == driver = "loop" /\ (obs' # obs \/ now' # now)

\* C8: a run of samples with distance <= PROXIMITY_THRESHOLD (equality
\* included) emits at most one event, on its first sample when more than
\* DETECTION_COOLDOWN has passed since the last event; a sample beyond the
\* threshold emits nothing and only sets person_detected to FALSE.  The
\* scenario 120, 80, 80, 80, 120 at seconds 0..4 of a run emits exactly one
\* event, on the sample of second 1.
C8_OneEventPerRun ==
  [][Samples =>
       /\ obs'.run_events <= 1
       /\ obs'.distance > PROXIMITY_THRESHOLD =>
            /\ ~Emits /\ ~person_detected'
            /\ UNCHANGED <<last_detection_time, sched, midi_port>>
       /\ (/\ obs'.distance <= PROXIMITY_THRESHOLD
           /\ obs'.run_len = 1
           /\ (obs.last_event = -1
                 \/ now' - obs.last_event > DETECTION_COOLDOWN)) => Emits
       /\ obs'.scen = Len(Scenario) => obs'.scen_events = {1}]_vars

\* the scenario has been read to its end
C8_Witness == obs.scen = Len(Scenario) /\ obs.scen_events = {1}

\* C9 (as claimed): once close() has returned no timer is armed, neither a
\* delay timer nor a cleanup timer nor an idle timer.
C9_NoTimerArmedAfterClose ==
  driver = "closed" =>
    ArmedDelays = {} /\ ArmedCleanups = {} /\ ArmedIdle = {}

\* C10 (as claimed): up to shutdown, a track of duration 0 whose pulse was
\* sent has no cleanup timer and its note is a key of playing_tracks.
C10_ZeroDurationTrackStays ==
  \A i \in DOMAIN timers :
    (Running /\ timers[i].delay = "done" /\ duration(timers[i].note) = 0)
      => /\ timers[i].cleanup = "none"
         /\ timers[i].note \in playing_tracks

\* C11 (as claimed): no thread reaches a `with self.lock` statement while it
\* holds the lock.  The callback of an idle timer holds the lock at "nested"
\* and, with a port and a mapping, goes on to line 190.
C11_NoNestedAcquisition ==
  \A i \in DOMAIN idle_timers :
    (idle_timers[i] = "nested" /\ lock = i)
      => (midi_port = "none" \/ note_to_file_map = {})

\* C12: the callback of an idle timer calls queue_random_track only if both
\* counts are 0 when it holds the lock, and they stay 0 while it holds it;
\* if a call of main() came in between the firing and the lock, the callback
\* changes no scheduler state, so no second track is queued.
C12_IdleCallbackRechecks ==
  [][/\ \A i \in DOMAIN idle_timers :
          idle_timers'[i] = "nested" => (queued_count' = 0 /\ playing_count' = 0)
     /\ \A i \in DOMAIN idle_timers :
          (idle_timers[i] = "waiting" /\ idle_timers'[i] # "waiting") =>
            IF queued_count = 0 /\ playing_count = 0
              THEN idle_timers'[i] = "nested"
              ELSE /\ idle_timers'[i] = "done"
                   /\ UNCHANGED <<queued_count, playing_count, playing_tracks,
                                  timers, active_timers, empty_queue_timer,
                                  lock>>]_vars

\* the idle timer fired, main() queued a track before the callback had the
\* lock, and the callback has just left without queueing
C12_Witness ==
  /\ hist.op = "auto_queue_track" /\ hist.res = "skips"
  /\ queued_count = 1 /\ Len(timers) = 1
  /\ timers[1].delay = "armed"

\* C13: the rollback of a failed pulse takes playing_count down by exactly
\* 1 (back to its value before the trigger), leaves the note out of
\* playing_tracks and queued_count as the trigger left it; no cleanup timer
\* is started for that trigger, and the callback ends without raising.
C13_RollbackUndoesTrigger ==
  [][/\ \A i \in DOMAIN timers' :
          timers'[i].delay \in {"rollback", "failed"}
            => timers'[i].cleanup = "none"
     /\ \A i \in DOMAIN timers :
          (timers[i].delay = "rollback" /\ timers'[i].delay # "rollback") =>
            /\ timers'[i].delay = "failed"
            /\ playing_count' = playing_count - 1
            /\ timers[i].note \notin playing_tracks'
            /\ queued_count' = queued_count]_vars

\* a single track was triggered and rolled back: the count is back at 0
C13_Witness ==
  /\ hist.op = "rollback" /\ hist.res = "present"
  /\ Len(timers) = 1 /\ timers[1].delay = "failed"
  /\ playing_count = 0 /\ queued_count = 0 /\ playing_tracks = {}

\* the events of a run are more than DETECTION_COOLDOWN apart, so a run that
\* ends by MaxTime queues at most this many tracks
TimerIds == 1 .. (MaxTime \div DETECTION_COOLDOWN)

\* the delay timer i is started and its callback has not yet got through
\* the with block of _trigger_track
Pending(i) ==
  i \in DOMAIN timers /\ timers[i].delay \in {"armed", "waiting"}

\* the callback of delay timer i has run _trigger_track for its note
Triggered(i) ==
  i \in DOMAIN timers
    /\ timers[i].delay \in {"pulse", "rollback", "done", "failed", "dropped"}

\* C14: every call of queue_random_track that queues a track starts exactly
\* one delay timer, bound to the note chosen in that call, and timers are
\* started by nothing else; a delay timer keeps its note, fires once and
\* runs _trigger_track once, so there are never more triggers than queued
\* tracks; and, unless the program is shut down, every queued track is
\* eventually triggered.
C14_OneDelayTimerPerEnqueue ==
  /\ [][/\ Len(timers') \in {Len(timers), Len(timers) + 1}
        /\ Len(timers') \in {0} \cup TimerIds
        /\ queued_count' = queued_count + 1 <=> Len(timers') = Len(timers) + 1
        /\ Len(timers') = Len(timers) + 1 =>
             /\ hist'.op = "queue_random_track" /\ hist'.res = "queued"
             /\ timers'[Len(timers')].note = hist'.note
             /\ timers'[Len(timers')].delay = "armed"
             /\ SubSeq(timers', 1, Len(timers)) = timers
        /\ \A i \in DOMAIN timers :
             /\ timers'[i].note = timers[i].note
             /\ timers'[i].delay = "armed" => timers[i].delay = "armed"
             /\ timers'[i].delay = "waiting" =>
                  timers[i].delay \in {"armed", "waiting"}
             /\ (Triggered(i)' /\ ~Triggered(i)) =>
                  /\ timers[i].delay = "waiting"
                  /\ hist'.op = "trigger_track"
                  /\ hist'.note = timers[i].note]_vars
  /\ \A i \in TimerIds : Pending(i) ~> (Triggered(i) \/ ~Running)

\* two tracks were queued for different notes, and each was triggered for
\* its own note, the second one last
C14_Witness ==
  /\ Len(timers) = 2
  /\ timers[1].note # timers[2].note
  /\ Triggered(1) /\ Triggered(2)
  /\ hist.op = "trigger_track" /\ hist.note = timers[2].note
  /\ Running

\* C15 (as claimed): the port is closed only after all timers are stopped:
\* in the step that closes it no callback of a delay timer is inside its
\* pulse (between the with block of line 221 and the end of the try block).
C15_PortClosedAfterTimersStopped ==
  [][(midi_port = "open" /\ midi_port' = "closed") =>
       \A i \in DOMAIN timers : timers[i].delay # "pulse"]_vars

\* C16: while the callback of a delay timer is in its pulse (note_on, the
\* hold, note_off) it does not hold the lock, and no callback of a delay
\* timer ever does outside its with block: unless an idle callback holds
\* the lock, a call of queue_random_track by main(), the with block of
\* another _trigger_track and that of a _track_finished can be entered
\* during the hold.
C16_NoLockDuringPulse ==
  /\ lock >= 0
  /\ \A i \in DOMAIN timers :
       (timers[i].delay = "pulse" /\ lock = 0) =>
         /\ driver = "queue" => ENABLED queue_random_track(0)
         /\ \A j \in DOMAIN timers :
              /\ timers[j].delay = "waiting" => ENABLED trigger_track(j)
              /\ timers[j].cleanup = "waiting" => ENABLED track_finished(j)

\* the callback of the first delay timer is in its pulse, and the second
\* callback has just got through its with block
C16_Witness ==
  /\ Len(timers) >= 2
  /\ timers[1].delay = "pulse" /\ timers[2].delay = "pulse"
  /\ hist.op = "trigger_track" /\ hist.res = "playing"
  /\ hist.note = timers[2].note /\ timers[1].note # timers[2].note

\* the idle timers that are started and neither cancelled nor through with
\* their callback
LiveIdle ==
  {i \in DOMAIN idle_timers : idle_timers[i] \in {"armed", "waiting", "nested"}}

\* C17 (as claimed): at most one idle timer is started and neither cancelled
\* nor through with its callback, and empty_queue_timer refers to it.
C17_OneLiveIdleTimer ==
  /\ Cardinality(LiveIdle) <= 1
  /\ LiveIdle # {} => LiveIdle = {empty_queue_timer}

\* C17 (amended): at most one idle timer is armed (started, not cancelled,
\* its interval not elapsed), and empty_queue_timer refers to it; the
\* handle refers to no timer that was cancelled.
C17_OneArmedIdleTimer ==
  /\ Cardinality(ArmedIdle) <= 1
  /\ ArmedIdle # {} => ArmedIdle = {empty_queue_timer}
  /\ empty_queue_timer # 0 =>
       /\ empty_queue_timer \in DOMAIN idle_timers
       /\ Running => idle_timers[empty_queue_timer] # "cancelled"

\* the first idle timer fired and its callback still waits for the lock; a
\* track was queued, played and finished meanwhile, and a second idle timer
\* is armed under the handle
C17_Witness ==
  /\ Len(idle_timers) >= 2
  /\ idle_timers[1] = "waiting"
  /\ idle_timers[Len(idle_timers)] = "armed"
  /\ empty_queue_timer = Len(idle_timers)
  /\ hist.op = "track_finished"

\* C18: without a port, the driver loop goes on emitting events and every
\* call of queue_random_track leaves the scheduler as it was: both counts
\* stay 0, playing_tracks stays empty and no delay timer is ever started;
\* main()'s call can always return, also while the callback of the idle
\* timer holds the lock.
C18_NoPortNoOp ==
  midi_port = "none" =>
    /\ queued_count = 0 /\ playing_count = 0 /\ playing_tracks = {}
    /\ timers = <<>> /\ active_timers = <<>>
    /\ driver = "queue" => ENABLED queue_random_track(0)
    /\ (hist.op = "queue_random_track" /\ hist.res # "none") =>
         hist.res = "noport"

\* without a port and with a catalog: the second event of the run has been
\* emitted, and main()'s call has returned while the callback of the idle
\* timer held the lock
C18_Witness ==
  /\ midi_port = "none" /\ note_to_file_map # {}
  /\ hist.op = "queue_random_track" /\ hist.res = "noport"
  /\ obs.prev_event # -1
  /\ driver = "loop" /\ lock = 1 /\ idle_timers[1] = "nested"

\* C19 (as claimed): outside the with blocks, playing_count is the number
\* of keys of playing_tracks, also when a note is triggered again while it
\* is playing and when a pulse for a playing note is rolled back.
C19_PlayingCountIsKeyCount ==
  lock = 0 => playing_count = Cardinality(playing_tracks)

\* C20 (as claimed): with every duration of the catalog above 0 and no
\* pulse failed, once every delay timer and every cleanup timer has fired
\* and run its callback, the scheduler is idle again: both counts are 0,
\* playing_tracks is empty and an idle timer has been armed under the handle.
C20_BackToIdle ==
  (/\ Running /\ lock = 0
   /\ \A n \in note_to_file_map : duration(n) > 0
   /\ timers # <<>>
   /\ \A i \in DOMAIN timers :
        timers[i].delay = "done" /\ timers[i].cleanup = "done")
    => /\ queued_count = 0 /\ playing_count = 0 /\ playing_tracks = {}
       /\ empty_queue_timer # 0
====
